---- MODULE Spec2Model ----
(***************************************************************************)
(* Image-namer (src/app.py): a Flask backend that stages uploaded images   *)
(* in static/temp, and on confirmation renames them after a text, writes   *)
(* them to static/uploads, packs them into zip archives and appends a      *)
(* record to brand_visual_db.json.                                         *)
(*                                                                         *)
(* A string is a sequence of characters, each character a one-element      *)
(* TLA+ string, so that strip(), the safe-name join and the f-strings are  *)
(* computed character by character.  An image's pixel content is named by  *)
(* the uuid under which it was staged; None is 0.                          *)
(***************************************************************************)
EXTENDS Integers, Sequences, FiniteSets, TLC

(* Bounds of the model. *)
MaxReq == 3        \* requests served in one behaviour
MaxBatch == 2      \* files, items or slides in one request
MaxUuid == 2       \* uuids the upload handlers draw before they stop
MaxTextLen == 2    \* characters of a text given to the naming policy alone

Workers == {"w1", "w2"}     \* request threads of the server

(***************************************************************************)
(* Characters.  One representative per class the code distinguishes.       *)
(***************************************************************************)
AsciiLetters == {"a", "A", "d", "e", "g", "m", "n", "p", "u"}
AsciiDigits == {"0", "1", "2", "3", "4", "5", "6", "7", "8", "9"}
UnicodeAlnum == {"U+00E9"}        \* a non-ASCII letter: str.isalnum() is True
Whitespace == {" ", "\t"}          \* what str.strip() removes
NameChars == {"a", "1", "U+00E9", " ", "-", "_", "/", "\t"}

IsAlnum(c) == c \in AsciiLetters \cup AsciiDigits \cup UnicodeAlnum

RECURSIVE LStrip(_)
LStrip(s) == IF s # <<>> /\ Head(s) \in Whitespace THEN LStrip(Tail(s)) ELSE s

RECURSIVE RStrip(_)
RStrip(s) ==
    IF s # <<>> /\ s[Len(s)] \in Whitespace
    THEN RStrip(SubSeq(s, 1, Len(s) - 1))
    ELSE s

Strip(s) == RStrip(LStrip(s))

DigitChars == <<"0", "1", "2", "3", "4", "5", "6", "7", "8", "9">>

RECURSIVE Str(_)
Str(n) ==
    IF n < 10
    THEN <<DigitChars[n + 1]>>
    ELSE Str(n \div 10) \o <<DigitChars[(n % 10) + 1]>>

(***************************************************************************)
(* The naming policy, the same expression in save_brand_visual,            *)
(* confirm_single and confirm_bulk.                                        *)
(***************************************************************************)
Unnamed == <<"u", "n", "n", "a", "m", "e", "d">>
Png == <<".", "p", "n", "g">>

\* a faulty variant: every character is kept
SafeChar_keepsAll(c) == c

SafeChar(c) == IF IsAlnum(c) \/ c \in {" ", "-", "_"} THEN c ELSE "_"

SafeName(text) ==
    LET joined == [i \in 1..Len(text) |-> SafeChar(text[i])]
    IN  IF Len(text) = 0 THEN Unnamed ELSE joined

Candidate(safe_name) == safe_name \o Png

Numbered(base_name, counter) == base_name \o <<"_">> \o Str(counter) \o Png

\* a faulty variant: an if in place of the while, one retry at most
ResolveName_oneRetry(existing, base_name, final_filename, counter) ==
    IF final_filename \in existing
    THEN Numbered(base_name, counter)
    ELSE final_filename

RECURSIVE ResolveName(_, _, _, _)
ResolveName(existing, base_name, final_filename, counter) ==
    IF final_filename \in existing
    THEN ResolveName(existing, base_name, Numbered(base_name, counter), counter + 1)
    ELSE final_filename

FinalFilename(text, existing) ==
    ResolveName(existing, SafeName(text), Candidate(SafeName(text)), 1)

(***************************************************************************)
(* State.                                                                  *)
(***************************************************************************)
VARIABLES
    temp,       \* static/temp: the set of staged paths <<uuid, ext>>
    uploads,    \* static/uploads: filename -> the image written under it
    db_file,    \* brand_visual_db.json: whether it exists, and its array
    uuid,       \* uuid.uuid4(): the number of identifiers drawn so far
    nreq,       \* requests received so far
    req,        \* per worker: the request it serves and the handler's locals
    completed,  \* history: the save_brand_visual requests that returned 200
    nm          \* the naming policy run on its own: input, position, result

vars == <<temp, uploads, db_file, uuid, nreq, req, completed, nm>>

Exts == {".png"}
Texts == {<<" ", "a">>, <<"a", "_", "1">>}
BrandNames == {<<>>, <<" ">>, <<"A">>}
Files ==
    { [filename |-> "slide.png", image |-> TRUE],
      [filename |-> "notes.png", image |-> FALSE],
      [filename |-> "../", image |-> TRUE],
      [filename |-> "", image |-> TRUE] }

SeqsUpTo(S, n) == UNION {[1..k -> S] : k \in 0..n}

NoResp == [status |-> 0, body |-> "none"]

NoItem == [id |-> 0, text |-> <<>>, ext |-> ""]

Blank ==
    [pc |-> "idle", op |-> "none", mode |-> "none", n |-> 0,
     brandName |-> <<>>, sequence |-> 1, item |-> NoItem, idx |-> 0, img |-> 0,
     final_filename |-> <<>>, zip |-> <<>>, saved_images |-> <<>>,
     db |-> <<>>, entry_id |-> 0, timestamp |-> 0, results |-> <<>>,
     outcomes |-> <<>>, resp |-> NoResp]

NmIdle == [pc |-> "off", text |-> <<>>, existing |-> {}, stripped |-> <<>>,
           safe_name |-> <<>>, final_filename |-> <<>>]

\* os.makedirs(..., exist_ok=True): static/uploads outlives the process, so
\* the server may start on a directory an earlier run has written to.
PriorImage == 0 - 1

PriorUploads == {<<>>, (<<"a", "_", "1">> \o Png) :> PriorImage}

HandlerInit ==
    /\ temp = {}
    /\ uploads \in PriorUploads
    /\ db_file = [exists |-> FALSE, data |-> <<>>]
    /\ uuid = 0
    /\ nreq = 0
    /\ req = [w \in Workers |-> Blank]
    /\ completed = <<>>

Init == HandlerInit /\ nm = NmIdle

(***************************************************************************)
(* load_db / save_db.                                                      *)
(***************************************************************************)
\* a faulty variant: the catalog file is never read back
load_db_empty == <<>>

load_db == IF db_file.exists THEN db_file.data ELSE <<>>

save_db(data) == [exists |-> TRUE, data |-> data]

(***************************************************************************)
(* Helpers of the handlers.                                                *)
(***************************************************************************)
TempPath(id, ext) == <<id, ext>>

Respond(status, body) == [status |-> status, body |-> body]

Free(w) == req[w].pc = "idle" /\ nreq < MaxReq

\* werkzeug's secure_filename and os.path.splitext on the file names of Files.
SecureFilename(filename) ==
    IF filename \in {"", "../"} THEN "" ELSE filename

SplitExt(filename) == ".png"

\* a faulty variant: the temp file is left in place
Removed_nothing(dir, temp_path) == dir

\* os.remove of a path that exists
Removed(dir, temp_path) == dir \ {temp_path}

(***************************************************************************)
(* upload and upload_brand_slides: the loop over the files.  The text      *)
(* extract_main_text returns is shown to the client only; no handler       *)
(* reads it back, so a result here carries the rest of its fields.         *)
(***************************************************************************)
StageFile(acc, file) ==
    LET filename == SecureFilename(file.filename)
        unique_id == acc.uuid + 1
        ext == SplitExt(filename)
        temp_path == TempPath(unique_id, ext)
        saved == acc.temp \cup {temp_path}                       \* file.save
    IN  IF filename = ""
        THEN acc                                                  \* continue
        ELSE IF ~file.image                                       \* img is None
        THEN [acc EXCEPT !.uuid = unique_id,
                         !.temp = Removed(saved, temp_path)]      \* os.remove
        ELSE [acc EXCEPT !.uuid = unique_id,
                         !.temp = saved,
                         !.results = Append(@, [id |-> unique_id,
                                                preview |-> temp_path,
                                                ext |-> ext,
                                                filename |-> filename])]

RECURSIVE StageFiles(_, _)
StageFiles(acc, files) ==
    IF files = <<>> THEN acc
    ELSE StageFiles(StageFile(acc, Head(files)), Tail(files))

Staged(files) ==
    StageFiles([uuid |-> uuid, temp |-> temp, results |-> <<>>], files)

\* What both upload handlers do once `files` is known.
StageAndRespond(w, op, mode, given, files) ==
    LET st == Staged(files)
        r0 == [Blank EXCEPT !.pc = "done", !.op = op, !.mode = mode,
                            !.n = Len(given)]
    IN  /\ st.uuid <= MaxUuid
        /\ nreq' = nreq + 1
        /\ UNCHANGED <<uploads, db_file, completed, nm>>
        /\ IF files = <<>>
           THEN /\ req' = [req EXCEPT ![w] =
                      [r0 EXCEPT !.resp = Respond(400, "No image uploaded")]]
                /\ UNCHANGED <<temp, uuid>>
           ELSE IF mode = "single" /\ Len(files) # 1
           THEN /\ req' = [req EXCEPT ![w] =
                      [r0 EXCEPT !.resp =
                          Respond(400, "Single mode requires exactly one image")]]
                /\ UNCHANGED <<temp, uuid>>
           ELSE /\ temp' = st.temp
                /\ uuid' = st.uuid
                /\ req' = [req EXCEPT ![w] =
                      [r0 EXCEPT !.results = st.results,
                                 !.resp = IF st.results = <<>>
                                          THEN Respond(400, "No valid images processed")
                                          ELSE Respond(200, "results")]]

\* POST /upload.  In single mode the form holds at most the one field `image`.
upload(w) ==
    /\ Free(w)
    /\ \E mode \in {"single", "bulk"} :
       \E given \in SeqsUpTo(Files, IF mode = "single" THEN 1 ELSE MaxBatch) :
          LET files == IF mode = "bulk" THEN given
                       ELSE SelectSeq(given, LAMBDA f : f.filename # "")
          IN  StageAndRespond(w, "upload", mode, given, files)

\* POST /upload_brand_slides.
upload_brand_slides(w) ==
    /\ Free(w)
    /\ \E given \in SeqsUpTo(Files, MaxBatch) :
          StageAndRespond(w, "upload_brand_slides", "bulk", given, given)

(***************************************************************************)
(* The confirm handlers.  A handler runs as a sequence of steps, one per   *)
(* access to the file system, so that two requests interleave as two       *)
(* threads of the server do.  A request's list is held by its length n,    *)
(* and each item is drawn when the loop reaches it; `outcomes` logs what   *)
(* became of each item, in the order of the list.                          *)
(***************************************************************************)
Items == [id : 1..uuid, text : Texts, ext : Exts]

Item(r) == r.item

ItemPath(r) == TempPath(Item(r).id, Item(r).ext)

Outcome(status, filename, text) ==
    [status |-> status, filename |-> filename, text |-> text]

Skipped(status) == Outcome(status, <<>>, <<>>)

SavedFiles(outcomes) ==
    LET saved == SelectSeq(outcomes, LAMBDA o : o.status = "saved")
    IN  [k \in 1..Len(saved) |-> saved[k].filename]

ZipNames(zip) == {zip[k].name : k \in 1..Len(zip)}

FinalPath(final_filename) == <<"static/uploads", final_filename>>

\* a faulty variant: the brand name is tested untrimmed
Rejected_untrimmed(brandName, n) == brandName = <<>> \/ n = 0

\* if not brand_name or not slides
Rejected(brandName, n) == Strip(brandName) = <<>> \/ n = 0

\* a faulty variant: order is the zero-based index
SavedImage_zeroBased(final_filename, slide_text, idx) ==
    [filename |-> final_filename, ocr_text |-> slide_text,
     path |-> FinalPath(final_filename), order |-> idx]

SavedImage(final_filename, slide_text, idx) ==
    [filename |-> final_filename, ocr_text |-> slide_text,
     path |-> FinalPath(final_filename), order |-> idx + 1]

DbEntry(r) ==
    [id |-> r.entry_id, brand_name |-> Strip(r.brandName),
     sequence |-> r.sequence, images |-> r.saved_images,
     created_at |-> r.timestamp]

\* cv2.imwrite that succeeds
Written(dir, final_filename, img) == (final_filename :> img) @@ dir

\* POST /save_brand_visual, up to load_db().
save_brand_visual(w) ==
    /\ Free(w)
    /\ \E brandName \in BrandNames, n \in 0..MaxBatch :
          LET r0 == [Blank EXCEPT !.op = "save_brand_visual",
                                  !.brandName = brandName, !.n = n,
                                  !.timestamp = nreq + 1]
          IN  IF Rejected(brandName, n)
              THEN /\ req' = [req EXCEPT ![w] =
                         [r0 EXCEPT !.pc = "done",
                                    !.resp = Respond(400,
                                        "Brand name and slides are required")]]
                   /\ UNCHANGED uuid
              ELSE /\ req' = [req EXCEPT ![w] =
                         [r0 EXCEPT !.pc = "loop", !.db = load_db,
                                    !.entry_id = uuid + 1]]
                   /\ uuid' = uuid + 1
    /\ nreq' = nreq + 1
    /\ UNCHANGED <<temp, uploads, db_file, completed, nm>>

\* POST /confirm_single, up to os.path.exists(temp_path).
confirm_single(w) ==
    /\ Free(w)
    /\ \E item \in Items :
          LET r0 == [Blank EXCEPT !.op = "confirm_single", !.n = 1,
                                  !.item = item]
          IN  req' = [req EXCEPT ![w] =
                  IF TempPath(item.id, item.ext) \notin temp
                  THEN [r0 EXCEPT !.pc = "done",
                                  !.outcomes = <<Skipped("missing")>>,
                                  !.resp = Respond(404, "Temp file not found")]
                  ELSE [r0 EXCEPT !.pc = "imread"]]
    /\ nreq' = nreq + 1
    /\ UNCHANGED <<temp, uploads, db_file, uuid, completed, nm>>

\* POST /confirm_bulk, up to the loop.
confirm_bulk(w) ==
    /\ Free(w)
    /\ \E n \in 0..MaxBatch :
          req' = [req EXCEPT ![w] =
                     [Blank EXCEPT !.op = "confirm_bulk", !.n = n, !.pc = "loop"]]
    /\ nreq' = nreq + 1
    /\ UNCHANGED <<temp, uploads, db_file, uuid, completed, nm>>

\* The head of the loop of confirm_bulk and save_brand_visual: the next item's
\* os.path.exists, or the code after the loop.
Loop(w) ==
    LET r == req[w]
    IN  /\ r.pc = "loop"
        /\ UNCHANGED <<temp, uploads, uuid, nreq, nm>>
        /\ IF r.idx < r.n
           THEN /\ \E item \in Items :
                      req' = [req EXCEPT ![w] =
                          IF TempPath(item.id, item.ext) \notin temp
                          THEN [r EXCEPT !.idx = @ + 1,
                                         !.outcomes = Append(@, Skipped("missing"))]
                          ELSE [r EXCEPT !.pc = "imread", !.item = item]]
                /\ UNCHANGED <<db_file, completed>>
           ELSE IF r.op = "confirm_bulk"
           THEN /\ req' = [req EXCEPT ![w] =
                      [r EXCEPT !.pc = "done",
                                !.resp = Respond(200, "extracted_images.zip")]]
                /\ UNCHANGED <<db_file, completed>>
           ELSE /\ db_file' = save_db(Append(r.db, DbEntry(r)))
                /\ completed' = Append(completed,
                       [id |-> r.entry_id, files |-> SavedFiles(r.outcomes)])
                /\ req' = [req EXCEPT ![w] =
                      [r EXCEPT !.pc = "done", !.db = Append(@, DbEntry(r)),
                                !.resp = Respond(200, "brand_visual_slides.zip")]]

\* cv2.imread of the staged file, and what follows it up to the next access
\* to the file system.
Imread(w) ==
    LET r == req[w]
        text == Strip(Item(r).text)
    IN  /\ r.pc = "imread"
        /\ UNCHANGED <<temp, uploads, db_file, uuid, nreq, completed, nm>>
        /\ \E readable, encoded \in BOOLEAN :
              LET img == IF ItemPath(r) \in temp /\ readable
                         THEN Item(r).id ELSE 0
                  zip_filename == FinalFilename(text, ZipNames(r.zip))
              IN  req' = [req EXCEPT ![w] =
                      IF img = 0
                      THEN [r EXCEPT !.pc = "remove_undecodable",
                                     !.outcomes = Append(@, Skipped("undecodable"))]
                      ELSE IF r.op # "confirm_bulk"
                      THEN [r EXCEPT !.pc = "imwrite", !.img = img,
                                     !.final_filename =
                                         FinalFilename(text, DOMAIN uploads)]
                      ELSE IF ~encoded
                      THEN [r EXCEPT !.pc = "remove_unencoded",
                                     !.outcomes = Append(@, Skipped("unencoded"))]
                      ELSE [r EXCEPT !.pc = "remove", !.img = img,
                                     !.final_filename = zip_filename,
                                     !.zip = Append(@, [name |-> zip_filename,
                                                        image |-> img]),
                                     !.outcomes = Append(@, Outcome("saved", zip_filename, text))]]

\* cv2.imwrite to static/uploads, and in save_brand_visual the zip entry and
\* the saved_images record.
Imwrite(w) ==
    LET r == req[w]
        f == r.final_filename
    IN  /\ r.pc = "imwrite"
        /\ UNCHANGED <<temp, db_file, uuid, nreq, completed, nm>>
        /\ \E success, encoded_success \in BOOLEAN :
              IF ~success
              THEN /\ UNCHANGED uploads
                   /\ req' = [req EXCEPT ![w] =
                         [r EXCEPT !.pc = IF r.op = "confirm_single"
                                          THEN "remove_unsaved" ELSE "remove",
                                   !.outcomes = Append(@, Skipped("unsaved"))]]
              ELSE /\ uploads' = Written(uploads, f, r.img)
                   /\ req' = [req EXCEPT ![w] =
                         IF r.op = "confirm_single"
                         THEN [r EXCEPT !.pc = "remove",
                                        !.outcomes = Append(@, Outcome("saved", f, Strip(Item(r).text)))]
                         ELSE [r EXCEPT !.pc = "remove",
                                        !.zip = IF encoded_success
                                                THEN Append(@, [name |-> f,
                                                                image |-> r.img])
                                                ELSE @,
                                        !.saved_images =
                                            Append(@, SavedImage(f,
                                                Strip(Item(r).text), r.idx)),
                                        !.outcomes = Append(@, Outcome("saved", f, Strip(Item(r).text)))]]

RemovePcs == {"remove", "remove_undecodable", "remove_unencoded", "remove_unsaved"}

SingleResponse(pc) ==
    CASE pc = "remove_undecodable" -> Respond(500, "Failed to process image")
      [] pc = "remove_unsaved" -> Respond(500, "Failed to save image")
      [] OTHER -> Respond(200, "download_link")

\* os.remove(temp_path), which raises FileNotFoundError when the path is gone:
\* the handler's except clause then answers 500.
Remove(w) ==
    LET r == req[w]
    IN  /\ r.pc \in RemovePcs
        /\ UNCHANGED <<uploads, db_file, uuid, nreq, completed, nm>>
        /\ IF ItemPath(r) \notin temp
           THEN /\ req' = [req EXCEPT ![w] =
                      [r EXCEPT !.pc = "done",
                                !.resp = Respond(500,
                                    "Internal Server Error: FileNotFoundError")]]
                /\ UNCHANGED temp
           ELSE /\ temp' = Removed(temp, ItemPath(r))
                /\ req' = [req EXCEPT ![w] =
                      IF r.op = "confirm_single"
                      THEN [r EXCEPT !.pc = "done", !.resp = SingleResponse(r.pc)]
                      ELSE [r EXCEPT !.pc = "loop", !.idx = @ + 1,
                                     !.item = NoItem, !.img = 0,
                                     !.final_filename = <<>>]]

\* The response is sent and the thread takes the next request.
Return(w) ==
    /\ req[w].pc = "done"
    /\ req' = [req EXCEPT ![w] = Blank]
    /\ UNCHANGED <<temp, uploads, db_file, uuid, nreq, completed, nm>>

Handler(w) ==
    \/ upload(w)
    \/ upload_brand_slides(w)
    \/ save_brand_visual(w)
    \/ confirm_single(w)
    \/ confirm_bulk(w)
    \/ Loop(w)
    \/ Imread(w)
    \/ Imwrite(w)
    \/ Remove(w)
    \/ Return(w)

\* Requests served by concurrent threads.
Next == \E w \in Workers : Handler(w)

Spec == Init /\ [][Next]_vars

\* Requests served one at a time.
NextSeq == Handler("w1")

SeqSpec == Init /\ [][NextSeq]_vars

(***************************************************************************)
(* The naming policy on its own: text.strip(), the safe name, the loop     *)
(* over the names that exist, for every text over NameChars.               *)
(***************************************************************************)
NamingTexts == SeqsUpTo(NameChars, MaxTextLen)

NamingDir ==
    { Candidate(<<"a">>), Numbered(<<"a">>, 1), Candidate(Unnamed),
      Numbered(Unnamed, 1), Candidate(<<"_">>), Numbered(<<"_">>, 1) }

NamingInit ==
    /\ HandlerInit
    /\ \E text \in NamingTexts, existing \in SUBSET NamingDir :
          nm = [NmIdle EXCEPT !.pc = "strip", !.text = text,
                              !.existing = existing]

NmStrip ==
    /\ nm.pc = "strip"
    /\ nm' = [nm EXCEPT !.pc = "safe_name", !.stripped = Strip(nm.text)]
    /\ UNCHANGED <<temp, uploads, db_file, uuid, nreq, req, completed>>

NmSafeName ==
    /\ nm.pc = "safe_name"
    /\ nm' = [nm EXCEPT !.pc = "resolve", !.safe_name = SafeName(nm.stripped)]
    /\ UNCHANGED <<temp, uploads, db_file, uuid, nreq, req, completed>>

NmResolve ==
    /\ nm.pc = "resolve"
    /\ nm' = [nm EXCEPT !.pc = "done",
                        !.final_filename = FinalFilename(nm.stripped, nm.existing)]
    /\ UNCHANGED <<temp, uploads, db_file, uuid, nreq, req, completed>>

NamingNext == NmStrip \/ NmSafeName \/ NmResolve

NamingSpec == NamingInit /\ [][NamingNext]_vars

(***************************************************************************)
(* Properties.                                                             *)
(***************************************************************************)
Last(q) == q[Len(q)]

IsPrefix(a, b) == Len(a) <= Len(b) /\ SubSeq(b, 1, Len(a)) = a

NotFoundError == Respond(500, "Internal Server Error: FileNotFoundError")

PathsOf(id) == {TempPath(id, ext) : ext \in Exts}

IsSaved(r, k) == r.outcomes[k].status = "saved"

\* C1: under any interleaving of requests, a write to static/uploads never
\* replaces a file that is already there: every image once stored stays
\* stored under its name, unchanged.
C1_WritesNeverOverwrite ==
    [][\A f \in DOMAIN uploads :
          f \in DOMAIN uploads' /\ uploads'[f] = uploads[f]]_vars

\* C2: the catalog file is append-only under any interleaving: each save
\* leaves every entry persisted before it in place, so two racing
\* save_brand_visual requests both end up in the catalog.
C2_CatalogAppendOnly == [][IsPrefix(db_file.data, db_file'.data)]_vars

\* C3: a save_brand_visual request whose brandName is empty after trimming,
\* or whose slides list is empty, is answered 400 on arrival, and that step
\* changes neither the catalog, nor static/uploads, nor static/temp.
C3_RejectedSaveChangesNothing ==
    [][\A w \in Workers :
          ( /\ req[w].pc = "idle"
            /\ req'[w].op = "save_brand_visual"
            /\ (Strip(req'[w].brandName) = <<>> \/ req'[w].n = 0) )
          => ( /\ req'[w].pc = "done"
               /\ req'[w].resp.status = 400
               /\ UNCHANGED <<temp, uploads, db_file>> )]_vars

C3_Witness ==
    \E w \in Workers :
        /\ req[w].pc = "done" /\ req[w].op = "save_brand_visual"
        /\ req[w].brandName = <<" ">> /\ req[w].n = 2
        /\ req[w].resp.status = 400
        /\ temp # {}

AsciiNameChars == AsciiLetters \cup AsciiDigits \cup {" ", "_", "-"}

HasPngForm(f, allowed) ==
    /\ Len(f) > Len(Png)
    /\ SubSeq(f, Len(f) - Len(Png) + 1, Len(f)) = Png
    /\ \A i \in 1..(Len(f) - Len(Png)) : f[i] \in allowed

UnnamedForms ==
    {Candidate(Unnamed)} \cup
    {Numbered(Unnamed, k) : k \in 1..(Cardinality(NamingDir) + 1)}

\* C4 as stated: for every text the filename matches ^[A-Za-z0-9 _-]+\.png$,
\* and is unnamed.png or unnamed_N.png when the safe name is empty.
C4_AsciiPattern ==
    nm.pc = "done" =>
        /\ HasPngForm(nm.final_filename, AsciiNameChars)
        /\ nm.stripped = <<>> => nm.final_filename \in UnnamedForms

\* C4 as amended: for every text the filename is a non-empty base followed by
\* .png, every character of the base being alphanumeric in the sense of
\* str.isalnum (ASCII or not), a space, a hyphen or an underscore; the base
\* is unnamed or unnamed_N when the stripped text is empty.
C4_UnicodePattern ==
    nm.pc = "done" =>
        /\ HasPngForm(nm.final_filename, AsciiNameChars \cup UnicodeAlnum)
        /\ nm.stripped = <<>> => nm.final_filename \in UnnamedForms

C4_Witness ==
    /\ nm.pc = "done"
    /\ nm.text = <<"U+00E9", "/">>
    /\ nm.final_filename = <<"U+00E9", "_">> \o Png

(* The first free name of the naming policy, stated without the loop. *)
FirstFree(base, ns) ==
    IF Candidate(base) \notin ns
    THEN Candidate(base)
    ELSE Numbered(base,
             CHOOSE k \in 1..(Cardinality(ns) + 1) :
                 /\ Numbered(base, k) \notin ns
                 /\ \A j \in 1..(k - 1) : Numbered(base, j) \in ns)

SafeOf(text) == SafeName(Strip(text))

\* The step of worker w writes an image to static/uploads.
WritesFile(w) ==
    /\ req[w].pc = "imwrite"
    /\ Len(req'[w].outcomes) > Len(req[w].outcomes)
    /\ Last(req'[w].outcomes).status = "saved"

\* The step of worker w adds an entry to the archive of confirm_bulk.
ZipsEntry(w) ==
    /\ req[w].op = "confirm_bulk"
    /\ Len(req'[w].zip) > Len(req[w].zip)

C5_FirstFreeStep ==
    \A w \in Workers :
        /\ WritesFile(w) =>
              LET f == FirstFree(SafeOf(req[w].item.text), DOMAIN uploads)
              IN  /\ Last(req'[w].outcomes).filename = f
                  /\ f \notin DOMAIN uploads
                  /\ f \in DOMAIN uploads'
        /\ ZipsEntry(w) =>
              Last(req'[w].zip).name =
                  FirstFree(SafeOf(req[w].item.text), ZipNames(req[w].zip))

\* The names in the target namespace when a request began (requests one at a
\* time), and when it reached its k-th item.
NsAtStart(r) ==
    IF r.op = "confirm_bulk" THEN {}
    ELSE DOMAIN uploads \ {r.outcomes[j].filename : j \in 1..Len(r.outcomes)}

NsBefore(r, k) ==
    NsAtStart(r) \cup {r.outcomes[j].filename : j \in {i \in 1..(k - 1) : IsSaved(r, i)}}

AllZipped(r) ==
    Len(r.zip) = Cardinality({k \in 1..Len(r.outcomes) : IsSaved(r, k)})

BatchPairs(r) ==
    {pq \in (1..Len(r.outcomes)) \X (1..Len(r.outcomes)) :
        /\ pq[1] < pq[2]
        /\ IsSaved(r, pq[1]) /\ IsSaved(r, pq[2])
        /\ SafeName(r.outcomes[pq[1]].text) = SafeName(r.outcomes[pq[2]].text)}

NamedInOrder(r, pq) ==
    LET base == SafeName(r.outcomes[pq[1]].text)
    IN  /\ r.outcomes[pq[1]].filename = Candidate(base)
        /\ r.outcomes[pq[2]].filename = Numbered(base, 1)
        /\ Candidate(base) # Numbered(base, 1)
        /\ AllZipped(r) => {Candidate(base), Numbered(base, 1)} \subseteq ZipNames(r.zip)

IsBatchConfirm(r) == r.op \in {"confirm_bulk", "save_brand_visual"}

C5_BatchPairAmended ==
    \A w \in Workers :
        IsBatchConfirm(req[w]) =>
            \A pq \in BatchPairs(req[w]) :
                LET base == SafeName(req[w].outcomes[pq[1]].text)
                IN  ( /\ Candidate(base) \notin NsBefore(req[w], pq[1])
                      /\ Numbered(base, 1) \notin NsBefore(req[w], pq[2]) )
                    => NamedInOrder(req[w], pq)

BatchOps == {"upload", "upload_brand_slides", "confirm_bulk", "save_brand_visual"}

NothingProduced(r) ==
    IF r.op \in {"upload", "upload_brand_slides"}
    THEN r.results = <<>>
    ELSE /\ Len(r.outcomes) = r.n
         /\ \A k \in 1..Len(r.outcomes) : ~IsSaved(r, k)

\* C6: a batch request that answers 200 has gone through all its items, and a
\* batch of which every item was skipped is answered with an error.
C6_EmptyBatchIsAnError ==
    \A w \in Workers :
        LET r == req[w]
        IN  (r.pc = "done" /\ r.op \in BatchOps /\ r.n > 0) =>
                /\ (IsBatchConfirm(r) /\ r.resp.status = 200) => Len(r.outcomes) = r.n
                /\ NothingProduced(r) => r.resp.status >= 400

\* C7: in save_brand_visual every recorded image has for order the 1-based
\* position of its slide in the request's list, whatever was skipped before
\* it, the orders of the list increase strictly, and the entry appended to
\* the catalog holds that list.
C7_OrderIsListPosition ==
    /\ \A w \in Workers :
          LET r == req[w]
          IN  r.op = "save_brand_visual" =>
                /\ \A k \in 1..Len(r.saved_images) :
                      LET im == r.saved_images[k]
                      IN  /\ im.order \in 1..Len(r.outcomes)
                          /\ r.outcomes[im.order] =
                                 Outcome("saved", im.filename, im.ocr_text)
                          /\ k > 1 => r.saved_images[k - 1].order < im.order
                /\ (r.pc = "done" /\ r.resp.status = 200) =>
                      Last(db_file.data).images = r.saved_images
    /\ \A e \in 1..Len(db_file.data) :
          \A k \in 2..Len(db_file.data[e].images) :
              db_file.data[e].images[k - 1].order < db_file.data[e].images[k].order

C7_Witness ==
    \E w \in Workers :
        /\ req[w].pc = "done" /\ req[w].op = "save_brand_visual"
        /\ req[w].resp.status = 200
        /\ Len(req[w].outcomes) = 2
        /\ req[w].outcomes[1].status = "missing"
        /\ db_file.data # <<>>
        /\ Len(Last(db_file.data).images) = 1
        /\ Last(db_file.data).images[1].order = 2

C8_CatalogIsTheSaves ==
    /\ Len(db_file.data) = Len(completed)
    /\ \A k \in 1..Len(completed) :
          LET images == db_file.data[k].images
          IN  /\ db_file.data[k].id = completed[k].id
              /\ Len(images) = Len(completed[k].files)
              /\ \A i \in 1..Len(images) :
                    /\ images[i].filename = completed[k].files[i]
                    /\ images[i].filename \in DOMAIN uploads

C8_ConfirmsLeaveCatalog ==
    \A w \in Workers :
        req'[w] # req[w] =>
            /\ req'[w].op \in {"confirm_single", "confirm_bulk"} => db_file' = db_file
            /\ req'[w].op = "confirm_bulk" => uploads' = uploads

\* C8: with requests one at a time, the catalog holds one entry per
\* save_brand_visual request that returned 200, in that order, each listing
\* exactly the files that request wrote, all of them in static/uploads;
\* no step of confirm_single or confirm_bulk changes the catalog, and none of
\* confirm_bulk changes static/uploads.
C8_CatalogMatchesSaves == []C8_CatalogIsTheSaves /\ [][C8_ConfirmsLeaveCatalog]_vars

C8_Witness ==
    /\ Len(db_file.data) = 2
    /\ Len(db_file.data[1].images) = 1
    /\ Len(db_file.data[2].images) = 1
    /\ db_file.data[1].id # db_file.data[2].id
    /\ \E w \in Workers : req[w].op = "save_brand_visual" /\ req[w].pc = "done"

C9_Step ==
    /\ \A id \in 1..uuid : \A path \in PathsOf(id) :
          path \notin temp => path \notin temp'
    /\ \A f \in DOMAIN uploads' :
          (f \notin DOMAIN uploads \/ uploads'[f] # uploads[f])
          => PathsOf(uploads'[f]) \cap temp # {}
    /\ \A w \in Workers :
          /\ (req[w].pc \in RemovePcs /\ req'[w].resp # NotFoundError)
                => ItemPath(req[w]) \notin temp'
          /\ Len(req'[w].zip) > Len(req[w].zip)
                => PathsOf(Last(req'[w].zip).image) \cap temp # {}
          /\ Len(req'[w].saved_images) > Len(req[w].saved_images)
                => ItemPath(req[w]) \in temp
          /\ ( /\ req[w].pc = "idle" /\ req'[w].op = "confirm_single"
               /\ ItemPath(req'[w]) \notin temp )
                => (req'[w].pc = "done" /\ req'[w].resp.status = 404)
          /\ (req[w].pc = "idle" /\ req'[w].op \in {"upload", "upload_brand_slides"})
                => temp' \ temp =
                       {req'[w].results[k].preview : k \in 1..Len(req'[w].results)}

\* C9: with requests one at a time, a staged file that a confirm handler has
\* dealt with is gone and is never staged again; a permanent file, an archive
\* entry or a catalog image is only ever made from a file that is staged at
\* that moment; confirm_single on an id whose file is gone answers 404; and
\* an upload leaves in static/temp only the files it returns.
C9_HandledIsTerminal == [][C9_Step]_vars

C9_Witness ==
    \E w \in Workers : \E f \in DOMAIN uploads :
        /\ req[w].pc = "done" /\ req[w].op = "confirm_single"
        /\ req[w].resp.status = 404
        /\ uploads[f] = req[w].item.id

\* C10: no request ends in the error of deleting a temp file that another
\* request confirming the same id has already deleted.
C10_SecondDeleteIsNoOp ==
    \A w \in Workers : req[w].pc = "done" => req[w].resp # NotFoundError

====
